---------------------------- MODULE Spec2Model ----------------------------
(***************************************************************************)
(* Matterfold: ligand_metal_docking (mofs/ligand_metal_docking.py).        *)
(*                                                                         *)
(* The docking call is modelled as a state machine whose steps are the     *)
(* stages of one loop iteration (site geometry, position solve, cluster    *)
(* alignment, rotation, steric check, assembly) followed by the return.    *)
(*                                                                         *)
(* Geometry lives on the integer lattice Z^3, so every squared distance is *)
(* an exact integer and "d < bond_distance" is decided as d^2 < bd^2.      *)
(* Lengths that the code takes with np.linalg.norm are kept in fixed point *)
(* with Resolution units per lattice unit.  Euler angles range over the    *)
(* quarter turns, for which sine and cosine are 0, 1 or -1; the rotation   *)
(* optimiser's result is a free choice among AngleChoices.  The position   *)
(* solver is a descent on the integer offsets from the seed the code uses, *)
(* and the inputs are those for which that descent ends on an exact        *)
(* stationary point of the objective.                                      *)
(* Atom indices are 1-based here (index k of the module is k-1 of numpy).  *)
(***************************************************************************)
EXTENDS Integers, Sequences, FiniteSets, TLC

\* Fixed-point units per lattice unit for np.linalg.norm.
Resolution == 100

\* Longest list of bonding sites passed to one call.
MaxSites == 2

\* Largest bond_distance passed to one call (lattice units).
MaxBondDistance == 2

\* Value of an array-valued local that has not been assigned yet.
None == <<>>

----------------------------------------------------------------------------
\* Vectors of Z^3 and arrays of them.

VecAdd(a, b) == << a[1] + b[1], a[2] + b[2], a[3] + b[3] >>

VecSub(a, b) == << a[1] - b[1], a[2] - b[2], a[3] - b[3] >>

VecScale(k, a) == << k * a[1], k * a[2], k * a[3] >>

Dot(a, b) == a[1] * b[1] + a[2] * b[2] + a[3] * b[3]

\* Squared Euclidean distance, the exact quantity behind every comparison
\* of two distances or of a distance with bond_distance.
Dist2(a, b) == Dot(VecSub(a, b), VecSub(a, b))

RECURSIVE SqrtSearch(_, _, _)
SqrtSearch(n, lo, hi) ==
    IF hi - lo <= 1 THEN lo
    ELSE LET mid == (lo + hi) \div 2
         IN  IF mid * mid <= n THEN SqrtSearch(n, mid, hi)
             ELSE SqrtSearch(n, lo, mid)

\* A power of two whose square exceeds n.
RECURSIVE SqrtUpper(_, _)
SqrtUpper(n, h) == IF h * h > n THEN h ELSE SqrtUpper(n, 2 * h)

\* floor(sqrt(n)) for n >= 0.
ISqrt(n) == SqrtSearch(n, 0, SqrtUpper(n, 1))

\* np.linalg.norm of a vector, in fixed point (Resolution units per unit).
Norm(v) == ISqrt(Dot(v, v) * Resolution * Resolution)

RECURSIVE SumVec(_)
SumVec(ps) ==
    IF ps = <<>> THEN <<0, 0, 0>>
    ELSE VecAdd(Head(ps), SumVec(Tail(ps)))

\* np.mean(positions, axis=0).
Mean(ps) ==
    LET s == SumVec(ps)
    IN  << s[1] \div Len(ps), s[2] \div Len(ps), s[3] \div Len(ps) >>

\* The elements of seq at the increasing indices of the set idx
\* (numpy fancy indexing positions[indices]).
RECURSIVE Take(_, _)
Take(seq, idx) ==
    IF idx = {} THEN <<>>
    ELSE LET m == CHOOSE i \in idx : \A j \in idx : i <= j
         IN  <<seq[m]>> \o Take(seq, idx \ {m})

SetMin(S) == CHOOSE x \in S : \A y \in S : x <= y

SeqMap(Op(_), seq) == [k \in 1..Len(seq) |-> Op(seq[k])]

----------------------------------------------------------------------------
\* ase.Atoms: a sequence of atoms, each a species symbol and a position.
\* An object handle records whether it shares storage with its source.

Positions(atoms) == [k \in 1..Len(atoms) |-> atoms[k].position]

WithPositions(atoms, ps) ==
    [k \in 1..Len(atoms) |-> [symbol |-> atoms[k].symbol, position |-> ps[k]]]

\* A rebinding instead of a copy: the handle shares the source's storage.
CopyAliased(atoms) == [atoms |-> atoms, shared |-> TRUE]

\* Atoms.copy(): a new object with the source's species and positions.
Copy(atoms) == [atoms |-> atoms, shared |-> FALSE]

----------------------------------------------------------------------------
\* Site geometry (stage 1).

\* The in-code default direction np.array([0.0, 0.0, 1.0]).
DefaultDirection == <<0, 0, 1>>

\* norm < 1e-10.  A fixed-point length is a whole number of 1/Resolution
\* units, and with Resolution far below 1e10 the only one under 1e-10 is 0.
BelowEpsilon(norm) == norm < 1

\* The raw difference vector kept as it is (the division by norm dropped).
NotNormalised(w, norm) == w

\* direction_vector / norm, norm being the fixed-point length of w.
Normalise(w, norm) ==
    << (w[1] * Resolution) \div norm,
       (w[2] * Resolution) \div norm,
       (w[3] * Resolution) \div norm >>

\* i for i in range(len(ligand)) if i not in site_indices
NonSiteIndices(n_ligand, site_indices) == (1..n_ligand) \ site_indices

DirectionVector(positions, n_ligand, site_indices) ==
    LET non_site_indices == NonSiteIndices(n_ligand, site_indices)
    IN  IF non_site_indices = {} THEN DefaultDirection
        ELSE LET w == VecSub(Mean(Take(positions, site_indices)),
                             Mean(Take(positions, non_site_indices)))
                 norm == Norm(w)
             IN  IF BelowEpsilon(norm) THEN DefaultDirection
                 ELSE Normalise(w, norm)

----------------------------------------------------------------------------
\* Bond-length position solver (stage 2).

RECURSIVE SumSquaredDeviation(_, _, _)
SumSquaredDeviation(site_positions, proposed_position, bd) ==
    IF site_positions = <<>> THEN 0
    ELSE LET dev == Norm(VecSub(Head(site_positions), proposed_position))
                        - bd * Resolution
         IN  dev * dev
               + SumSquaredDeviation(Tail(site_positions), proposed_position, bd)

\* position_objective_function(scale_factor), in squared fixed-point units.
PositionObjective(site_positions, centroid, direction, bd, scale_factor) ==
    SumSquaredDeviation(site_positions,
                        VecAdd(centroid, VecScale(scale_factor, direction)), bd)

\* The local minimiser reached from the seed: step to the lower neighbouring
\* offset while one is strictly lower; stop where none is, or where both are
\* equally lower (a symmetric stationary point).
RECURSIVE Descend(_, _, _, _, _)
Descend(site_positions, centroid, direction, bd, s) ==
    LET here == PositionObjective(site_positions, centroid, direction, bd, s)
        up   == PositionObjective(site_positions, centroid, direction, bd, s + 1)
        down == PositionObjective(site_positions, centroid, direction, bd, s - 1)
    IN  IF up < here /\ up < down
          THEN Descend(site_positions, centroid, direction, bd, s + 1)
        ELSE IF down < here /\ down < up
          THEN Descend(site_positions, centroid, direction, bd, s - 1)
        ELSE s

\* minimize(position_objective_function, bond_distance, ...).x[0]
SolveScaleFactor(site_positions, centroid, direction, bd) ==
    Descend(site_positions, centroid, direction, bd, bd)

\* The scale factor left out of the proposed position.
PositionWithoutScale(site_positions, centroid, direction, bd) ==
    VecAdd(centroid, direction)

\* site_centroid + position_result.x[0] * direction_vector
OptimalPosition(site_positions, centroid, direction, bd) ==
    VecAdd(centroid,
           VecScale(SolveScaleFactor(site_positions, centroid, direction, bd),
                    direction))

----------------------------------------------------------------------------
\* Coordinating-atom selector (stage 3).

Cross(a, b) ==
    << a[2] * b[3] - a[3] * b[2],
       a[3] * b[1] - a[1] * b[3],
       a[1] * b[2] - a[2] * b[1] >>

\* Six times the signed volume of the tetrahedron a b c d.
Orient(a, b, c, d) == Dot(VecSub(b, a), Cross(VecSub(c, a), VecSub(d, a)))

\* ConvexHull(points).simplices: the triangles of points that span a plane
\* with every other point on one side of it (templates are in general
\* position: no four atoms in one plane).
Simplices(points) ==
    LET n == Len(points)
    IN  { f \in SUBSET (1..n) :
            /\ Cardinality(f) = 3
            /\ LET i == SetMin(f)
                   j == SetMin(f \ {i})
                   k == SetMin(f \ {i, j})
                   rest == (1..n) \ f
               IN  /\ Cross(VecSub(points[j], points[i]),
                            VecSub(points[k], points[i])) # <<0, 0, 0>>
                   /\ \/ \A m \in rest :
                           Orient(points[i], points[j], points[k], points[m]) > 0
                      \/ \A m \in rest :
                           Orient(points[i], points[j], points[k], points[m]) < 0 }

\* The template's first atom, whatever the hull is.
FirstAtomIndex(points) == 1

\* np.unique(hull.simplices.flatten())[0]
CoordinatingAtomIndex(points) == SetMin(UNION Simplices(points))

\* np.delete(np.arange(len(metal_center)), coordinating_atom_index)
MetalIndices(n_metal, coordinating_index) == (1..n_metal) \ {coordinating_index}

----------------------------------------------------------------------------
\* Cluster aligner and rotation (stages 4 and 5).

Translate(positions, translation_vector) ==
    [k \in 1..Len(positions) |-> VecAdd(positions[k], translation_vector)]

\* Quarter turns: angle q stands for q * pi / 2.
QuarterTurns == 0..3

\* The Euler angles the rotation optimiser may return: a turn about a single
\* axis, or the same turn about all three.
AngleChoices ==
    { angles \in QuarterTurns \X QuarterTurns \X QuarterTurns :
        \/ Cardinality({ c \in 1..3 : angles[c] # 0 }) <= 1
        \/ angles[1] = angles[2] /\ angles[2] = angles[3] }

Cos(q) == CASE q = 0 -> 1 [] q = 1 -> 0 [] q = 2 -> -1 [] q = 3 -> 0

Sin(q) == CASE q = 0 -> 0 [] q = 1 -> 1 [] q = 2 -> 0 [] q = 3 -> -1

Rx(q) == << <<1, 0, 0>>, <<0, Cos(q), -Sin(q)>>, <<0, Sin(q), Cos(q)>> >>

Ry(q) == << <<Cos(q), 0, Sin(q)>>, <<0, 1, 0>>, <<-Sin(q), 0, Cos(q)>> >>

Rz(q) == << <<Cos(q), -Sin(q), 0>>, <<Sin(q), Cos(q), 0>>, <<0, 0, 1>> >>

MatMul(A, B) ==
    [r \in 1..3 |->
        [c \in 1..3 |-> A[r][1] * B[1][c] + A[r][2] * B[2][c] + A[r][3] * B[3][c]]]

MatVec(A, v) == [r \in 1..3 |-> Dot(A[r], v)]

\* R = Rz @ Ry @ Rx
RotationMatrix(angles) == MatMul(MatMul(Rz(angles[3]), Ry(angles[2])), Rx(angles[1]))

\* The rotation applied about the origin of the frame instead.
RotateAboutOrigin(positions, R, centre) ==
    [k \in 1..Len(positions) |-> MatVec(R, positions[k])]

\* np.dot(positions - optimal_position, R.T) + optimal_position
RotateAbout(positions, R, centre) ==
    [k \in 1..Len(positions) |->
        VecAdd(MatVec(R, VecSub(positions[k], centre)), centre)]

----------------------------------------------------------------------------
\* Steric clash validator (stage 6).

\* np.vstack(previous_metal_positions)
RECURSIVE VStack(_)
VStack(arrays) ==
    IF arrays = <<>> THEN <<>> ELSE Head(arrays) \o VStack(Tail(arrays))

\* np.min over one row of the distance matrix, as a squared distance.
MinDist2(p, others) ==
    SetMin({ Dist2(p, others[k]) : k \in 1..Len(others) })

Min2(a, b) == IF a <= b THEN a ELSE b

\* min_distances of lines 157-174 (squared): per non-coordinating atom, the
\* minimum over the ligand, lowered by the minimum over the earlier clusters
\* when there are any.
MinDistances(metal_atoms_positions, lig_positions, previous) ==
    [k \in 1..Len(metal_atoms_positions) |->
        LET to_ligand == MinDist2(metal_atoms_positions[k], lig_positions)
        IN  IF previous # <<>>
              THEN Min2(to_ligand,
                        MinDist2(metal_atoms_positions[k], VStack(previous)))
            ELSE to_ligand]

\* The comparison taken as "not greater than".
AnyAtOrBelow(min_distances, bd) ==
    \E k \in 1..Len(min_distances) : min_distances[k] <= bd * bd

\* np.any(min_distances < bond_distance)
AnyBelow(min_distances, bd) ==
    \E k \in 1..Len(min_distances) : min_distances[k] < bd * bd

----------------------------------------------------------------------------
\* Structure assembler (stage 7).

\* The new instance put in front of the structure.
ExtendedInFront(atoms, other) == other \o atoms

\* combined_structure += metal_center_copy (Atoms.extend)
Extended(atoms, other) == atoms \o other

\* The collection overwritten with the latest entry.
ReplacedBy(previous, entry) == <<entry>>

\* previous_metal_positions.append(metal_atoms_positions)
Appended(previous, entry) == Append(previous, entry)

----------------------------------------------------------------------------
\* Inputs of one call.

Atom(symbol, x, y, z) == [symbol |-> symbol, position |-> <<x, y, z>>]

LigandChoices ==
    { << Atom("O", 0, 0, 0), Atom("C", 0, 0, -2) >>,
      << Atom("N", -1, -1, 0), Atom("N", 1, 1, 0), Atom("C", 0, 0, 0) >> }

\* A tetrahedral cluster, and the same with an atom inside it listed first.
TemplateChoices ==
    { << Atom("Zn", 0, 0, 0), Atom("O", 4, 0, 0),
         Atom("O", 0, 4, 0), Atom("O", 0, 0, 4) >>,
      << Atom("Zn", 1, 1, 1), Atom("O", 0, 0, 0), Atom("O", 4, 0, 0),
         Atom("O", 0, 4, 0), Atom("O", 0, 0, 4) >> }

\* Whether the sum of the array is a whole multiple of its length, so that
\* its mean is a lattice point.
ExactMean(ps) ==
    LET s == SumVec(ps)
    IN  \A c \in 1..3 : s[c] % Len(ps) = 0

Sgn(x) == IF x > 0 THEN 1 ELSE IF x < 0 THEN -1 ELSE 0

\* Whether the position objective is stationary at offset s for exact
\* reasons: every site atom lies on the solver's line or in the plane
\* through the proposed position perpendicular to it, and the deviations of
\* the atoms on the line cancel.
RECURSIVE LineDeviation(_, _, _, _)
LineDeviation(site, proposed, direction, bd) ==
    IF site = <<>> THEN 0
    ELSE LET proj == Dot(VecSub(proposed, Head(site)), direction)
             term == IF proj > 0 THEN proj - bd
                     ELSE IF proj < 0 THEN proj + bd
                     ELSE 0
         IN  term + LineDeviation(Tail(site), proposed, direction, bd)

ExactlyStationary(site, centroid, direction, bd, s) ==
    LET proposed == VecAdd(centroid, VecScale(s, direction))
    IN  /\ \A k \in 1..Len(site) :
              LET v == VecSub(proposed, site[k])
                  proj == Dot(v, direction)
              IN  proj = 0 \/ proj * proj = Dot(v, v)
        /\ LineDeviation(site, proposed, direction, bd) = 0

\* A bonding site of the lattice model: its centroid and the centroid of the
\* other atoms are lattice points, their difference lies on a coordinate
\* axis (so its length is a whole number), the position objective is
\* differentiable at the solver's seed (the seed point is not a site atom)
\* and the offset the descent reaches is an exact stationary point.
LatticeSite(atoms, indices, bd) ==
    LET positions == Positions(atoms)
        site == Take(positions, indices)
        rest == Take(positions, (1..Len(atoms)) \ indices)
        w == IF rest = <<>> THEN <<0, 0, 0>>
             ELSE VecSub(VecScale(Len(rest), SumVec(site)),
                         VecScale(Len(site), SumVec(rest)))
        centroid == Mean(site)
        direction == IF w = <<0, 0, 0>> THEN <<0, 0, 1>>
                     ELSE << Sgn(w[1]), Sgn(w[2]), Sgn(w[3]) >>
    IN  /\ ExactMean(site)
        /\ rest # <<>> => ExactMean(rest)
        /\ Cardinality({c \in 1..3 : w[c] # 0}) <= 1
        /\ \A k \in 1..Len(site) :
              site[k] # VecAdd(centroid, VecScale(bd, direction))
        /\ ExactlyStationary(site, centroid, direction, bd,
                             SolveScaleFactor(site, centroid, direction, bd))

SiteChoices(atoms, bd) ==
    { indices \in SUBSET (1..Len(atoms)) :
        indices # {} /\ LatticeSite(atoms, indices, bd) }

SiteListChoices(atoms, bd) ==
    UNION { [1..n -> SiteChoices(atoms, bd)] : n \in 0..MaxSites }

----------------------------------------------------------------------------
\* State of one call of ligand_metal_docking.

VARIABLES
    ligand,                    \* the caller's ligand object
    metal_center,              \* the caller's cluster template object
    bonding_sites,             \* list of index sets
    bond_distance,
    combined_structure,        \* handle of the structure being built
    ligand_positions,          \* array taken from the ligand at entry
    previous_metal_positions,  \* list of arrays, one per committed site
    site_number,               \* 1-based number of the site in progress
    site_centroid,
    direction_vector,
    optimal_position,
    coordinating_atom_index,   \* 0 while unassigned
    metal_center_copy,         \* handle of the per-site copy
    metal_center_positions,    \* the translated array of the copy
    final_positions,           \* the rotated array
    pc,                        \* stage about to run, "returned" or "raised"
    result                     \* the returned structure, None before return

vars == << ligand, metal_center, bonding_sites, bond_distance,
           combined_structure, ligand_positions, previous_metal_positions,
           site_number, site_centroid, direction_vector, optimal_position,
           coordinating_atom_index, metal_center_copy,
           metal_center_positions, final_positions, pc, result >>

inputs == << bonding_sites, bond_distance >>

\* The site of the iteration in progress.
site_indices == bonding_sites[site_number]

\* ligand_positions[site_indices]
site_positions == Take(ligand_positions, site_indices)

\* final_positions[metal_indices]
MetalAtomsPositions(positions, n_metal, coordinating_index) ==
    Take(positions, MetalIndices(n_metal, coordinating_index))

Init ==
    /\ ligand \in LigandChoices
    /\ metal_center \in TemplateChoices
    /\ bond_distance \in 1..MaxBondDistance
    /\ bonding_sites \in SiteListChoices(ligand, bond_distance)
    /\ combined_structure = Copy(ligand)
    /\ ligand_positions = Positions(ligand)
    /\ previous_metal_positions = <<>>
    /\ site_number = 1
    /\ site_centroid = None
    /\ direction_vector = None
    /\ optimal_position = None
    /\ coordinating_atom_index = 0
    /\ metal_center_copy = Copy(<<>>)
    /\ metal_center_positions = None
    /\ final_positions = None
    /\ pc = "site"
    /\ result = None

\* Lines 36-54: the next site's centroid and direction vector.
SiteGeometry ==
    /\ pc = "site"
    /\ site_number <= Len(bonding_sites)
    /\ site_centroid' = Mean(site_positions)
    /\ direction_vector' = DirectionVector(ligand_positions, Len(ligand), site_indices)
    /\ pc' = "solve"
    /\ UNCHANGED << ligand, metal_center, inputs, combined_structure,
                    ligand_positions, previous_metal_positions, site_number,
                    optimal_position, coordinating_atom_index,
                    metal_center_copy, metal_center_positions,
                    final_positions, result >>

\* Lines 56-64: the bond position along the direction vector.
SolvePosition ==
    /\ pc = "solve"
    /\ optimal_position' = OptimalPosition(site_positions, site_centroid,
                                           direction_vector, bond_distance)
    /\ pc' = "align"
    /\ UNCHANGED << ligand, metal_center, inputs, combined_structure,
                    ligand_positions, previous_metal_positions, site_number,
                    site_centroid, direction_vector, coordinating_atom_index,
                    metal_center_copy, metal_center_positions,
                    final_positions, result >>

\* Lines 66-77: select the coordinating atom, copy the template and
\* translate the copy's position array onto the bond position.
AlignCluster ==
    /\ pc = "align"
    /\ LET index == CoordinatingAtomIndex(Positions(metal_center))
           copy == Copy(metal_center)
           positions == Positions(copy.atoms)
       IN  /\ coordinating_atom_index' = index
           /\ metal_center_copy' = copy
           /\ metal_center_positions' =
                  Translate(positions, VecSub(optimal_position, positions[index]))
    /\ pc' = "rotate"
    /\ UNCHANGED << ligand, metal_center, inputs, combined_structure,
                    ligand_positions, previous_metal_positions, site_number,
                    site_centroid, direction_vector, optimal_position,
                    final_positions, result >>

\* Lines 79-150: the optimiser returns some Euler angles; the copy's array
\* is rotated by them about the bond position.
OptimiseRotation ==
    /\ pc = "rotate"
    /\ \E angles \in AngleChoices :
          final_positions' = RotateAbout(metal_center_positions,
                                         RotationMatrix(angles), optimal_position)
    /\ pc' = "check"
    /\ UNCHANGED << ligand, metal_center, inputs, combined_structure,
                    ligand_positions, previous_metal_positions, site_number,
                    site_centroid, direction_vector, optimal_position,
                    coordinating_atom_index, metal_center_copy,
                    metal_center_positions, result >>

\* min_distances of the rotated geometry (lines 152-174).
CheckedMinDistances ==
    MinDistances(MetalAtomsPositions(final_positions, Len(metal_center),
                                     coordinating_atom_index),
                 ligand_positions, previous_metal_positions)

\* Lines 176-177: the steric check fails and the call raises ValueError.
RaiseStericClash ==
    /\ pc = "check"
    /\ AnyBelow(CheckedMinDistances, bond_distance)
    /\ pc' = "raised"
    /\ UNCHANGED << ligand, metal_center, inputs, combined_structure,
                    ligand_positions, previous_metal_positions, site_number,
                    site_centroid, direction_vector, optimal_position,
                    coordinating_atom_index, metal_center_copy,
                    metal_center_positions, final_positions, result >>

\* Lines 179-182: the check passed; the copy takes the final positions, is
\* appended to the combined structure, and its non-coordinating atoms join
\* the previously placed positions.  A handle that shares storage with its
\* source writes through to the source.
Assemble ==
    /\ pc = "check"
    /\ ~AnyBelow(CheckedMinDistances, bond_distance)
    /\ LET placed == WithPositions(metal_center_copy.atoms, final_positions)
           combined == Extended(combined_structure.atoms, placed)
       IN  /\ metal_center_copy' = [metal_center_copy EXCEPT !.atoms = placed]
           /\ metal_center' = IF metal_center_copy.shared THEN placed
                              ELSE metal_center
           /\ combined_structure' = [combined_structure EXCEPT !.atoms = combined]
           /\ ligand' = IF combined_structure.shared THEN combined ELSE ligand
    /\ previous_metal_positions' =
           Appended(previous_metal_positions,
                    MetalAtomsPositions(final_positions, Len(metal_center),
                                        coordinating_atom_index))
    /\ site_number' = site_number + 1
    /\ pc' = "site"
    /\ UNCHANGED << inputs, ligand_positions, site_centroid, direction_vector,
                    optimal_position, coordinating_atom_index,
                    metal_center_positions, final_positions, result >>

\* Line 184: every site is done; the combined structure is returned.
Return ==
    /\ pc = "site"
    /\ site_number > Len(bonding_sites)
    /\ result' = combined_structure.atoms
    /\ pc' = "returned"
    /\ UNCHANGED << ligand, metal_center, inputs, combined_structure,
                    ligand_positions, previous_metal_positions, site_number,
                    site_centroid, direction_vector, optimal_position,
                    coordinating_atom_index, metal_center_copy,
                    metal_center_positions, final_positions >>

Next ==
    \/ SiteGeometry
    \/ SolvePosition
    \/ AlignCluster
    \/ OptimiseRotation
    \/ RaiseStericClash
    \/ Assemble
    \/ Return

Spec == Init /\ [][Next]_vars

----------------------------------------------------------------------------
\* Properties.  The definitions below describe the call from outside: they
\* read the state and the inputs and restate geometry from first principles.

n_ligand == Len(ligand_positions)

n_metal == Len(metal_center)

\* Number of cluster instances committed to the combined structure so far.
n_committed == Len(previous_metal_positions)

\* Positions of the j-th committed instance, read off the combined structure.
InstancePositions(j) ==
    [k \in 1..n_metal |->
        combined_structure.atoms[n_ligand + (j - 1) * n_metal + k].position]

InstanceSymbols(j) ==
    [k \in 1..n_metal |->
        combined_structure.atoms[n_ligand + (j - 1) * n_metal + k].symbol]

NonCoordinating == (1..n_metal) \ {coordinating_atom_index}

\* The set of positions a new instance is checked against: the ligand atoms
\* and every atom recorded for the earlier sites.
PooledPositions ==
    { ligand_positions[k] : k \in 1..n_ligand }
      \cup { previous_metal_positions[j][k] :
               j \in 1..Len(previous_metal_positions), k \in 1..(n_metal - 1) }

\* Some non-coordinating atom of the rotated geometry lies strictly closer
\* than bond_distance to a pooled position.
ClashAt ==
    \E k \in NonCoordinating : \E q \in PooledPositions :
        Dist2(final_positions[k], q) < bond_distance * bond_distance

\* The bond position of the j-th site of the list, from the inputs.
SolvedPosition(j) ==
    LET site == Take(ligand_positions, bonding_sites[j])
    IN  OptimalPosition(site, Mean(site),
                        DirectionVector(ligand_positions, n_ligand,
                                        bonding_sites[j]),
                        bond_distance)

\* C1: when the call returns, every non-coordinating atom of every placed
\* instance is at least bond_distance away from every ligand atom and from
\* every atom, the coordinating atom included, of every other instance.
C1_SuccessPostcondition ==
    pc = "returned" =>
        \A j \in 1..n_committed : \A k \in NonCoordinating :
            /\ \A a \in 1..n_ligand :
                  Dist2(InstancePositions(j)[k], ligand_positions[a])
                      >= bond_distance * bond_distance
            /\ \A m \in (1..n_committed) \ {j} : \A l \in 1..n_metal :
                  Dist2(InstancePositions(j)[k], InstancePositions(m)[l])
                      >= bond_distance * bond_distance

\* C2: at the steric check of a site the call raises exactly when some
\* non-coordinating atom of the rotated geometry is strictly closer than
\* bond_distance to a ligand atom or a previously accumulated position (a
\* distance equal to bond_distance passes); a raise leaves the combined
\* structure, the accumulated positions and the site counter as they were,
\* returns nothing, and nothing runs after it.
C2_FailFast ==
    [][ /\ pc = "check" => ((pc' = "raised") <=> ClashAt)
        /\ pc' = "raised" =>
              /\ UNCHANGED << combined_structure, previous_metal_positions,
                              site_number, result >>
              /\ result = None
        /\ pc # "raised" ]_vars

\* C2 witness: the call has raised at its second site with the first site's
\* instance committed, and a third site was still to come or not.
C2_RaisedAtSecondSite ==
    /\ pc = "raised"
    /\ site_number = 2
    /\ n_committed = 1
    /\ result = None

\* C3: the combined structure always holds the ligand followed by one
\* instance per completed site; on return the result is the ligand's atoms
\* unchanged followed by one instance per site in list order, each with the
\* template's species and its coordinating atom at that site's bond
\* position, and with no sites it is the ligand itself.
C3_ResultShape ==
    /\ Len(combined_structure.atoms) = n_ligand + (site_number - 1) * n_metal
    /\ pc = "returned" =>
          /\ result = combined_structure.atoms
          /\ Len(result) = Len(ligand) + Len(bonding_sites) * n_metal
          /\ SubSeq(result, 1, Len(ligand)) = ligand
          /\ \A j \in 1..Len(bonding_sites) :
                /\ InstanceSymbols(j) = [k \in 1..n_metal |-> metal_center[k].symbol]
                /\ InstancePositions(j)[coordinating_atom_index] = SolvedPosition(j)
                /\ Take(InstancePositions(j), NonCoordinating)
                      = previous_metal_positions[j]
          /\ bonding_sites = <<>> => result = ligand

\* C3 witness: a call with two sites has returned.
C3_ReturnedTwoSites ==
    /\ pc = "returned"
    /\ Len(bonding_sites) = 2
    /\ Len(result) = Len(ligand) + 2 * n_metal

\* C4 as stated: on return, the coordinating atom of every site's instance
\* is at bond_distance from each atom of that site (lattice distances are
\* square roots of whole numbers, so within the solver's tolerance they
\* agree exactly or not at all).
C4_ContactAtEverySite ==
    pc = "returned" =>
        \A j \in 1..Len(bonding_sites) : \A a \in bonding_sites[j] :
            Dist2(InstancePositions(j)[coordinating_atom_index],
                  ligand_positions[a]) = bond_distance * bond_distance

\* C4 amended: the coordinating atom of every committed instance placed at a
\* single-atom site is at bond_distance from that atom.
C4_ContactAtSingleAtomSites ==
    \A j \in 1..n_committed :
        Cardinality(bonding_sites[j]) = 1 =>
            \A a \in bonding_sites[j] :
                Dist2(InstancePositions(j)[coordinating_atom_index],
                      ligand_positions[a]) = bond_distance * bond_distance

\* C4 witness: a returned call whose second site is a single atom and whose
\* bond distance is not the unit of the lattice.
C4_SingleAtomSitePlaced ==
    /\ pc = "returned"
    /\ Len(bonding_sites) = 2
    /\ Cardinality(bonding_sites[2]) = 1
    /\ bond_distance = 2

\* The site list names the same site twice.
SameSiteTwice ==
    Len(bonding_sites) = 2 /\ bonding_sites[1] = bonding_sites[2]

\* C5: a call that places the same site twice never returns; its second
\* placement raises whatever rotation it was given.
C5_SecondPlacementRaises ==
    SameSiteTwice => pc # "returned"

\* The template's geometry relative to its coordinating atom, moved to the
\* bond position: where a fresh copy stands after the aligner.
TemplateAt(position) ==
    [k \in 1..n_metal |->
        VecAdd(position,
               VecSub(metal_center[k].position,
                      metal_center[coordinating_atom_index].position))]

\* C6: no step of the call changes the caller's ligand or cluster template,
\* whether the call goes on to return or to raise, and at every site the
\* aligned copy is the original template moved to the bond position, not a
\* continuation of an earlier site's rotated copy.
C6_TemplatesNeverMutated ==
    /\ [][ligand' = ligand /\ metal_center' = metal_center]_vars
    /\ [](pc = "rotate" =>
            /\ metal_center_positions = TemplateAt(optimal_position)
            /\ Positions(metal_center_copy.atoms) = Positions(metal_center))

\* C6 witness: the second site's copy has been aligned after a first
\* instance was committed in a rotated orientation.
C6_SecondCopyAligned ==
    /\ pc = "rotate"
    /\ site_number = 2
    /\ InstancePositions(1) # TemplateAt(InstancePositions(1)[coordinating_atom_index])

\* The stages in which direction_vector is that of the site in progress.
DirectionInUse == pc \in {"solve", "align", "rotate", "check", "raised"}

\* Site centroid minus rest centroid of the site in progress, scaled by
\* both atom counts so that it stays a lattice vector.
ScaledCentroidDifference ==
    LET rest == Take(ligand_positions, (1..n_ligand) \ site_indices)
    IN  VecSub(VecScale(Len(rest), SumVec(site_positions)),
               VecScale(Len(site_positions), SumVec(rest)))

\* C7: the direction handed to the position solver has length 1; it is the
\* default (0,0,1) when the site holds every ligand atom or the two
\* centroids coincide, and otherwise points along site centroid minus rest
\* centroid.
C7_UnitDirection ==
    DirectionInUse =>
        /\ Dot(direction_vector, direction_vector) = 1
        /\ IF site_indices = 1..n_ligand
              \/ ScaledCentroidDifference = <<0, 0, 0>>
           THEN direction_vector = <<0, 0, 1>>
           ELSE /\ Cross(direction_vector, ScaledCentroidDifference) = <<0, 0, 0>>
                /\ Dot(direction_vector, ScaledCentroidDifference) > 0

\* C7 witness: a direction obtained by normalising a difference vector that
\* was not already of length 1.
C7_NormalisedDirection ==
    /\ pc = "solve"
    /\ site_indices # 1..n_ligand
    /\ LET rest == Take(ligand_positions, (1..n_ligand) \ site_indices)
           w == VecSub(Mean(site_positions), Mean(rest))
       IN  Dot(w, w) > 1 /\ direction_vector # <<0, 0, 1>>

\* p lies in the closed tetrahedron a b c d (which is not flat).
InTetrahedron(p, a, b, c, d) ==
    LET v == Orient(a, b, c, d)
    IN  /\ v # 0
        /\ \A t \in { Orient(p, b, c, d), Orient(a, p, c, d),
                      Orient(a, b, p, d), Orient(a, b, c, p) } :
              (v > 0 /\ t >= 0) \/ (v < 0 /\ t <= 0)

\* Atom i is a vertex of the convex hull: it is in no tetrahedron spanned by
\* four other atoms (atoms in general position).
IsHullVertex(points, i) ==
    LET others == (1..Len(points)) \ {i}
    IN  ~ \E a, b, c, d \in others :
            /\ a < b /\ b < c /\ c < d
            /\ InTetrahedron(points[i], points[a], points[b], points[c], points[d])

\* C8: the selected coordinating atom is a vertex of the template's convex
\* hull and no atom with a smaller index is one; once selected, the same
\* index is selected at every later site.
C8_SmallestHullVertex ==
    /\ [](coordinating_atom_index # 0 =>
            /\ coordinating_atom_index \in 1..n_metal
            /\ IsHullVertex(Positions(metal_center), coordinating_atom_index)
            /\ \A i \in 1..(coordinating_atom_index - 1) :
                  ~IsHullVertex(Positions(metal_center), i))
    /\ [][coordinating_atom_index # 0 =>
            coordinating_atom_index' = coordinating_atom_index]_vars

\* C8 witness: the template's first atom is inside the hull, the second is
\* selected, and the selection has been made again at the second site.
C8_InteriorAtomSkipped ==
    /\ pc = "rotate"
    /\ site_number = 2
    /\ coordinating_atom_index = 2
    /\ ~IsHullVertex(Positions(metal_center), 1)

\* C9: the collection of previously placed positions holds one entry per
\* completed site (none at the first site), the j-th being the
\* non-coordinating atoms of the j-th instance; a step either leaves it alone
\* or, at a steric check that finds no clash, appends the non-coordinating
\* atoms of the rotated geometry; no entry is changed or removed.
C9_AppendOnlyPlacedPositions ==
    /\ [](/\ Len(previous_metal_positions) = site_number - 1
          /\ \A j \in 1..Len(previous_metal_positions) :
                previous_metal_positions[j]
                    = Take(InstancePositions(j), NonCoordinating))
    /\ [][ \/ previous_metal_positions' = previous_metal_positions
           \/ /\ pc = "check"
              /\ ~ClashAt
              /\ previous_metal_positions'
                    = Append(previous_metal_positions,
                             Take(final_positions, NonCoordinating)) ]_vars

\* C9 witness: the second site has passed its check against the ligand and
\* the first site's entry, and its entry has been appended.
C9_TwoEntries ==
    /\ Len(previous_metal_positions) = 2
    /\ previous_metal_positions[1] # previous_metal_positions[2]

\* An array of positions has the template's pairwise distances.
Congruent(positions) ==
    \A k, l \in 1..n_metal :
        Dist2(positions[k], positions[l])
            = Dist2(metal_center[k].position, metal_center[l].position)

\* C10: after the aligner the coordinating atom is at the bond position;
\* after any rotation it is still there and the copy has the template's
\* pairwise distances; every committed instance has its coordinating atom
\* at its site's bond position and is congruent to the template.
C10_RigidPlacement ==
    /\ pc = "rotate" =>
          metal_center_positions[coordinating_atom_index] = optimal_position
    /\ pc \in {"check", "raised"} =>
          /\ final_positions[coordinating_atom_index] = optimal_position
          /\ Congruent(final_positions)
    /\ \A j \in 1..n_committed :
          /\ InstancePositions(j)[coordinating_atom_index] = SolvedPosition(j)
          /\ Congruent(InstancePositions(j))

\* C10 witness: a rotation that moved the other atoms has been applied and
\* the instance committed.
C10_RotatedInstanceCommitted ==
    /\ n_committed = 1
    /\ pc = "site"
    /\ final_positions # metal_center_positions
    /\ InstancePositions(1) = final_positions

=============================================================================
